---- MODULE Spec2Model ----
(***************************************************************************)
(* cc::internal::TaskGraphRunner (src/cc/resources/task_graph_runner.cc).  *)
(*                                                                         *)
(* The runner's state is guarded by one mutex, lock_.  A step of the model *)
(* is one stretch of code between two points at which a thread gives the   *)
(* mutex up (AutoLock scope exit, AutoUnlock around the task body, or a    *)
(* ConditionVariable::Wait).  A worker keeps the mutex from the moment the *)
(* task body returns until it either waits or releases it for the next     *)
(* body, so the mutex is a variable of the model.                          *)
(***************************************************************************)
EXTENDS Integers, Sequences, FiniteSets, TLC

\* Number of SetTaskGraph calls a behaviour of Spec makes.
MaxSubmits == 3

\* Number of SetTaskGraph calls a behaviour of LiveSpec makes.
MaxLiveSubmits == 3

\* Number of SetTaskGraph calls a behaviour of FairSpec makes.
MaxFairSubmits == 2

\* Largest priority value of a submitted node.
MaxPriority == 1

\* Stand-in for the largest size_t: what 0 - 1 gives for the unsigned
\* TaskGraph::Node::dependencies (the DCHECK_LT before the decrement is
\* compiled out of release builds).
SizeMax == 2147483647

NULL == "NULL"
\* lock_ is the set of workers holding it: empty, or one worker.
FREE == {}

\* Worker thread indices (running_tasks_ has one slot per worker).
Workers == {0, 1}

\* Namespace token ids handed out by GetNamespaceToken.
Tokens == {1, 2}

\* Origin threads; origin thread i is the client that owns token i.
Origins == Tokens

\* The tasks each client builds its graphs from.
TaskOrder == <<"A", "B", "X">>

Tasks == {TaskOrder[i] : i \in 1..Len(TaskOrder)}

NamespaceTasks(tok) == IF tok = 1 THEN {"A", "B"} ELSE {"X"}

\* The token of the client a task belongs to.
OwnerOf(t) == CHOOSE tok \in Tokens : t \in NamespaceTasks(tok)

Priorities == 0..MaxPriority

-----------------------------------------------------------------------------
(* Sequences and heaps *)

Range(s) == {s[i] : i \in 1..Len(s)}

Count(s, x) == Cardinality({i \in 1..Len(s) : s[i] = x})

Perms(n) == {f \in [1..n -> 1..n] : \A i, j \in 1..n : i # j => f[i] # f[j]}

Permuted(s) == {[i \in 1..Len(s) |-> s[f[i]]] : f \in Perms(Len(s))}

\* std::is_heap: no element is less than one of its children.  The
\* comparator is passed as the set of the pairs it is true of.
IsHeap(s, less) == \A i \in 2..Len(s) : <<s[i \div 2], s[i]>> \notin less

\* std::make_heap: the elements, rearranged into some heap.
MakeHeap(s, less) == {p \in Permuted(s) : IsHeap(p, less)}

\* std::push_heap: s is a heap followed by one new element; the result is a
\* heap of all of them.  On a range that is no heap the result is
\* unspecified.
PushHeap(s, less) ==
  IF IsHeap(SubSeq(s, 1, Len(s) - 1), less) THEN MakeHeap(s, less)
  ELSE Permuted(s)

\* std::pop_heap: the first element goes last and the rest is made a heap.
PopHeap(s, less) ==
  {Append(p, s[1]) : p \in MakeHeap(SubSeq(s, 2, Len(s)), less)}

-----------------------------------------------------------------------------
(* Task graphs *)

\* TaskGraph::Node and TaskGraph::Edge.
Node(t, p, d) == [task |-> t, priority |-> p, dependencies |-> d]

Edge(t, d) == [task |-> t, dependent |-> d]

EmptyGraph == [nodes |-> <<>>, edges |-> <<>>]

PrioritizedTask(t, p) == [task |-> t, priority |-> p]

NodeTasks(g) == {g.nodes[i].task : i \in 1..Len(g.nodes)}

\* std::find_if(nodes, TaskComparator(task)): index of the first node of
\* the task, 0 when there is none.
FindNode(nodes, t) ==
  IF \E i \in 1..Len(nodes) : nodes[i].task = t
  THEN CHOOSE i \in 1..Len(nodes) :
         nodes[i].task = t /\ \A j \in 1..(i - 1) : nodes[j].task # t
  ELSE 0

\* DependentIterator: the dependents of the edges whose source is the task,
\* in edge order.
RECURSIVE DependentsFrom(_, _, _)
DependentsFrom(g, t, i) ==
  IF i > Len(g.edges) THEN <<>>
  ELSE IF g.edges[i].task = t
       THEN <<g.edges[i].dependent>> \o DependentsFrom(g, t, i + 1)
       ELSE DependentsFrom(g, t, i + 1)

DependentIterator(g, t) == DependentsFrom(g, t, 1)

\* node.dependencies-- on an unsigned counter.
Decrement(d) == IF d = 0 THEN SizeMax ELSE d - 1

DecrementNode(nodes, t) ==
  LET k == FindNode(nodes, t)
  IN [nodes EXCEPT ![k].dependencies = Decrement(nodes[k].dependencies)]

\* The graphs a client submits: acyclic, every edge between nodes of the
\* graph, every node's dependency count equal to its in-degree.
Acyclic(N, E) ==
  \E r \in [N -> 1..Cardinality(N)] : \A e \in E : r[e[1]] < r[e[2]]

PairOrder ==
  LET n == Len(TaskOrder)
  IN [i \in 1..(n * n) |->
        <<TaskOrder[((i - 1) \div n) + 1], TaskOrder[((i - 1) % n) + 1]>>]

GraphOf(N, E, prio) ==
  LET ts == SelectSeq(TaskOrder, LAMBDA t : t \in N)
      es == SelectSeq(PairOrder, LAMBDA e : e \in E)
  IN [nodes |-> [i \in 1..Len(ts) |->
                   Node(ts[i], prio[ts[i]],
                        Cardinality({e \in E : e[2] = ts[i]}))],
      edges |-> [i \in 1..Len(es) |-> Edge(es[i][1], es[i][2])]]

InputGraphs(tok) ==
  UNION {UNION {{GraphOf(N, E, prio) : prio \in [N -> Priorities]} :
                  E \in {F \in SUBSET (N \X N) : Acyclic(N, F)}} :
           N \in SUBSET NamespaceTasks(tok)}

GraphsOf == [tok \in Tokens |-> InputGraphs(tok)]

-----------------------------------------------------------------------------
(* Declarations of task_graph_runner.h *)

\* TaskGraphRunner::TaskNamespace, as constructed.
NewTaskNamespace ==
  [graph |-> EmptyGraph,
   ready_to_run_tasks |-> <<>>,
   completed_tasks |-> <<>>,
   num_running_tasks |-> 0]

\* Lower priority value runs first: a orders below b in the heap when its
\* priority value is larger.
CompareTaskPriority(a, b) == a.priority > b.priority

\* Namespaces compare by the task at the front of their ready heaps.
CompareTaskNamespacePriority(nss, a, b) ==
  CompareTaskPriority(nss[a].ready_to_run_tasks[1],
                      nss[b].ready_to_run_tasks[1])

\* The comparators over the elements of a vector.
TaskLess(s) ==
  {p \in Range(s) \X Range(s) : CompareTaskPriority(p[1], p[2])}

NamespaceLess(s, nss) ==
  {p \in Range(s) \X Range(s) : CompareTaskNamespacePriority(nss, p[1], p[2])}

HasFinishedRunningTasksInNamespace(ns) ==
  /\ ns.ready_to_run_tasks = <<>>
  /\ ns.num_running_tasks = 0
  /\ ns.graph.nodes = <<>>

-----------------------------------------------------------------------------
VARIABLES
  lock,                     \* FREE, or the worker holding lock_
  namespaces,               \* namespaces_: token id -> TaskNamespace
  ready_to_run_namespaces,  \* ready_to_run_namespaces_: heap of token ids
  running_tasks,            \* running_tasks_: worker index -> task or NULL
  did_run,                  \* Task::did_run_
  wpc,                      \* where each worker is in Run()
  task_namespace,           \* a running worker's local task_namespace
  opc,                      \* where each origin thread is in WaitFor...
  shutdown,                 \* shutdown_
  stale,                    \* the waiter's TaskNamespace* points at an erased namespace
  num_submits,              \* history: SetTaskGraph calls made so far
  submitted,                \* history: tasks that were a node of a submitted graph
  starts,                   \* history: times RunOnWorkerThread started, per task
  drained,                  \* history: times a task came out of CollectCompletedTasks
  collected,                \* the caller's vector after the last CollectCompletedTasks
  superseded,               \* history: workers whose namespace got a new graph during the run
  finished_by_run,          \* history: namespaces a returning task left all-finished
  last_submit,              \* history: <<token, graph, fresh>> of a SetTaskGraph nothing has followed
  resubmitted               \* history: that call repeated the call before it

vars == <<lock, namespaces, ready_to_run_namespaces, running_tasks, did_run,
          wpc, task_namespace, opc, stale, shutdown, num_submits,
          submitted, starts, drained, collected, superseded, finished_by_run,
          last_submit, resubmitted>>

history == <<num_submits, submitted, starts, drained, collected,
            superseded, finished_by_run, last_submit, resubmitted>>

IsRunning(t) == \E w \in Workers : running_tasks[w] = t

\* A set that writes the namespace under every token of the map.
SetNamespaceEverywhere(nss, tok, ns) == [k \in DOMAIN nss \cup {tok} |-> ns]

SetNamespace(nss, tok, ns) ==
  [k \in DOMAIN nss \cup {tok} |-> IF k = tok THEN ns ELSE nss[k]]

EraseNamespace(nss, tok) == [k \in DOMAIN nss \ {tok} |-> nss[k]]

\* The workers has_ready_to_run_tasks_cv_.Signal() may leave: one waiting
\* worker is woken, whichever; none waiting, the signal is lost.
SignalReady(pcs) ==
  IF \E w \in Workers : pcs[w] = "wait"
  THEN {[pcs EXCEPT ![w] = "woken"] : w \in {v \in Workers : pcs[v] = "wait"}}
  ELSE {pcs}

\* has_namespaces_with_finished_running_tasks_cv_.Signal(), likewise.
SignalFinished(pcs) ==
  IF \E o \in Origins : pcs[o] = "wait"
  THEN {[pcs EXCEPT ![o] = "woken"] : o \in {v \in Origins : pcs[v] = "wait"}}
  ELSE {pcs}

Init ==
  /\ lock = FREE
  /\ namespaces = <<>>
  /\ ready_to_run_namespaces = <<>>
  /\ running_tasks = [w \in Workers |-> NULL]
  /\ did_run = [t \in Tasks |-> FALSE]
  /\ wpc = [w \in Workers |-> "start"]
  /\ task_namespace = [w \in Workers |-> 0]
  /\ opc = [o \in Origins |-> "idle"]
  /\ stale = [o \in Origins |-> FALSE]
  /\ shutdown = FALSE
  /\ num_submits = 0
  /\ submitted = {}
  /\ starts = [t \in Tasks |-> 0]
  /\ drained = [t \in Tasks |-> 0]
  /\ collected = <<>>
  /\ superseded = {}
  /\ finished_by_run = {}
  /\ last_submit = <<>>
  /\ resubmitted = FALSE

-----------------------------------------------------------------------------
(* SetTaskGraph *)

RECURSIVE DecrementDependents(_, _, _)
DecrementDependents(nodes, deps, i) ==
  IF i > Len(deps) THEN nodes
  ELSE DecrementDependents(DecrementNode(nodes, deps[i]), deps, i + 1)

\* "First adjust number of dependencies to reflect completed tasks": every
\* entry of completed_tasks takes one off each of its dependents in the new
\* graph.
RECURSIVE AdjustDependencies(_, _, _)
AdjustDependencies(g, completed, j) ==
  IF j > Len(completed) THEN g
  ELSE AdjustDependencies(
         [g EXCEPT !.nodes =
            DecrementDependents(g.nodes, DependentIterator(g, completed[j]), 1)],
         completed, j + 1)

\* A loop that leaves the old graph's nodes where they are.
RemoveOldNodeNever(old, t) == old

\* std::swap(*old_it, nodes.back()); nodes.pop_back().
RemoveOldNode(old, t) ==
  LET k == FindNode(old, t)
  IN IF k = 0 THEN old
     ELSE SubSeq([old EXCEPT ![k] = old[Len(old)]], 1, Len(old) - 1)

\* The three "continue"s of the loop that builds the ready queue.
SkipReady(node) ==
  \/ node.dependencies # 0
  \/ did_run[node.task]
  \/ IsRunning(node.task)

\* "Build new ready to run queue and remove nodes from old graph".
RECURSIVE BuildReadyToRun(_, _, _, _)
BuildReadyToRun(newnodes, i, old, ready) ==
  IF i > Len(newnodes) THEN [old |-> old, ready |-> ready]
  ELSE LET node == newnodes[i]
       IN BuildReadyToRun(
            newnodes, i + 1, RemoveOldNode(old, node.task),
            IF SkipReady(node) THEN ready
            ELSE Append(ready, PrioritizedTask(node.task, node.priority)))

\* SkipCancel with the test inverted: what is queued is skipped, what ran
\* or runs is cancelled.
SkipCancelInverted(node) == ~(did_run[node.task] \/ IsRunning(node.task))

\* The two "continue"s of the loop that cancels what is left of the old graph.
SkipCancel(node) == did_run[node.task] \/ IsRunning(node.task)

\* "Determine what tasks in old graph need to be canceled".
RECURSIVE CanceledTasks(_, _)
CanceledTasks(old, i) ==
  IF i > Len(old) THEN <<>>
  ELSE (IF SkipCancel(old[i]) THEN <<>> ELSE <<old[i].task>>)
       \o CanceledTasks(old, i + 1)

\* A rebuild that takes every namespace, ready task or none.
ReadyNamespacesAll(nss) ==
  CHOOSE s \in [1..Cardinality(DOMAIN nss) -> DOMAIN nss] :
    Range(s) = DOMAIN nss

\* "Build new ready to run task namespaces queue": the namespaces with a
\* ready task, in some iteration order of the hash map.
ReadyNamespaces(nss) ==
  LET S == {k \in DOMAIN nss : nss[k].ready_to_run_tasks # <<>>}
  IN CHOOSE s \in [1..Cardinality(S) -> S] : Range(s) = S

\* The TaskNamespace as the call leaves it, but for the order of its heap.
\* A take that always starts from a new TaskNamespace.
TakeFresh(tok) == NewTaskNamespace

\* "namespaces_.take_and_erase(token.id_)", and "Create task namespace if it
\* doesn't exist": the object goes back into the map at the end of the call.
TakeAndErase(tok) ==
  IF tok \in DOMAIN namespaces THEN namespaces[tok] ELSE NewTaskNamespace

SetTaskGraphNamespace(tok, graph) ==
  LET ns == TakeAndErase(tok)
      adjusted == AdjustDependencies(graph, ns.completed_tasks, 1)
      built == BuildReadyToRun(adjusted.nodes, 1, ns.graph.nodes, <<>>)
  IN [graph |-> adjusted,
      ready_to_run_tasks |-> built.ready,
      completed_tasks |-> ns.completed_tasks \o CanceledTasks(built.old, 1),
      num_running_tasks |-> ns.num_running_tasks]

\* The call before this step was SetTaskGraph(tok, graph), and nothing was
\* dispatched, returned or collected since.
LastSubmitWas(tok, graph) ==
  /\ last_submit # <<>>
  /\ last_submit[1] = tok
  /\ last_submit[2] = graph

SetTaskGraph(tok, graph) ==
  /\ lock = FREE
  /\ LET ns == SetTaskGraphNamespace(tok, graph)
     IN \E heap \in MakeHeap(ns.ready_to_run_tasks, TaskLess(ns.ready_to_run_tasks)) :
          LET nss == SetNamespace(namespaces, tok,
                                  [ns EXCEPT !.ready_to_run_tasks = heap])
          IN /\ namespaces' = nss
             /\ \E h \in MakeHeap(ReadyNamespaces(nss),
                                  NamespaceLess(ReadyNamespaces(nss), nss)) :
                  /\ ready_to_run_namespaces' = h
                  /\ wpc' \in (IF h # <<>> THEN SignalReady(wpc) ELSE {wpc})
  /\ num_submits' = num_submits + 1
  /\ submitted' = submitted \cup NodeTasks(graph)
  /\ superseded' = superseded \cup
                     {w \in Workers : wpc[w] = "run" /\ task_namespace[w] = tok}
  /\ finished_by_run' = finished_by_run \ {tok}
  /\ last_submit' = <<tok, graph, tok \notin DOMAIN namespaces>>
  /\ resubmitted' = LastSubmitWas(tok, graph)
  /\ UNCHANGED <<lock, running_tasks, did_run, task_namespace, opc, stale,
                 starts, drained, collected,
                 shutdown>>

-----------------------------------------------------------------------------
(* CollectCompletedTasks *)

RECURSIVE CountDrained(_, _, _)
CountDrained(d, completed, i) ==
  IF i > Len(completed) THEN d
  ELSE CountDrained([d EXCEPT ![completed[i]] = @ + 1], completed, i + 1)

\* A swap that leaves the namespace's queue as it was.
SwapCompletedKept(ns) == ns

\* completed_tasks->swap(task_namespace->completed_tasks), into an empty
\* vector.
SwapCompleted(ns) == [ns EXCEPT !.completed_tasks = <<>>]

\* The caller's vector arrives empty (DCHECK_EQ(0u, completed_tasks->size()))
\* and is left empty when the token has no namespace.
CollectCompletedTasks(tok) ==
  /\ lock = FREE
  /\ IF tok \notin DOMAIN namespaces
     THEN /\ collected' = <<>>
          /\ UNCHANGED <<namespaces, stale, drained, finished_by_run>>
     ELSE LET ns == SwapCompleted(namespaces[tok])
          IN /\ collected' = namespaces[tok].completed_tasks
             /\ drained' =
                  CountDrained(drained, namespaces[tok].completed_tasks, 1)
             /\ finished_by_run' =
                  IF HasFinishedRunningTasksInNamespace(ns)
                  THEN finished_by_run \ {tok} ELSE finished_by_run
             /\ IF HasFinishedRunningTasksInNamespace(ns)
                THEN /\ namespaces' = EraseNamespace(namespaces, tok)
                     /\ stale' = [o \in Origins |->
                                    stale[o] \/ (o = tok /\ opc[o] # "idle")]
                ELSE /\ namespaces' = SetNamespace(namespaces, tok, ns)
                     /\ UNCHANGED stale
  /\ last_submit' = <<>>
  /\ resubmitted' = FALSE
  /\ UNCHANGED <<lock, ready_to_run_namespaces, running_tasks, did_run, wpc,
                 task_namespace, opc, num_submits, submitted, starts,
                 superseded,
                 shutdown>>

-----------------------------------------------------------------------------
(* WaitForTasksToFinishRunning, called by origin thread o on its token *)

\* What the waiter reads through its TaskNamespace*: the namespace's state,
\* or, the namespace erased under it, anything.
WaiterSeesFinished(o) ==
  IF stale[o] THEN BOOLEAN
  ELSE {HasFinishedRunningTasksInNamespace(namespaces[o])}

\* The while loop and what follows it.
WaitLoop(o) ==
  \E finished \in WaiterSeesFinished(o) :
    IF finished
    THEN /\ opc' \in SignalFinished([opc EXCEPT ![o] = "idle"])
         /\ stale' = [stale EXCEPT ![o] = FALSE]
    ELSE /\ opc' = [opc EXCEPT ![o] = "wait"]
         /\ UNCHANGED stale

\* "if (it == namespaces_.end()) return;" comes before the loop.
WaitForTasksToFinishRunning(o) ==
  /\ lock = FREE
  /\ opc[o] = "idle"
  /\ IF o \in DOMAIN namespaces THEN WaitLoop(o)
     ELSE UNCHANGED <<opc, stale>>
  /\ UNCHANGED <<lock, namespaces, ready_to_run_namespaces, running_tasks,
                 did_run, wpc, task_namespace, history,
                 shutdown>>

\* A signalled waiter takes the lock again and re-evaluates the loop.
WaiterWakes(o) ==
  /\ lock = FREE
  /\ opc[o] = "woken"
  /\ WaitLoop(o)
  /\ UNCHANGED <<lock, namespaces, ready_to_run_namespaces, running_tasks,
                 did_run, wpc, task_namespace, history,
                 shutdown>>

-----------------------------------------------------------------------------
(* The worker threads: Run and RunTaskWithLockAcquired *)

NamespaceHeap(rtn, nss) ==
  MakeHeap(rtn, NamespaceLess(rtn, nss))

\* RequeueNamespace without the push: the popped namespace stays off the
\* heap.
RequeueNamespaceNever(rest, tok, nss) == {rest}

\* "Add task namespace back to ready_to_run_namespaces_ if not empty after
\* taking top priority task": push_back and push_heap.
RequeueNamespace(rest, tok, nss) ==
  IF nss[tok].ready_to_run_tasks # <<>>
  THEN PushHeap(Append(rest, tok), NamespaceLess(Append(rest, tok), nss))
  ELSE {rest}

\* A worker enters Run(), or returns from has_ready_to_run_tasks_cv_.Wait():
\* it takes the lock and is at the top of the loop.
WorkerAcquire(w) ==
  /\ lock = FREE
  /\ wpc[w] \in {"start", "woken"}
  /\ lock' = {w}
  /\ wpc' = [wpc EXCEPT ![w] = "loop"]
  /\ UNCHANGED <<namespaces, ready_to_run_namespaces, running_tasks, did_run,
                 task_namespace, opc, stale, history,
                 shutdown>>

\* Nothing is ready: the worker waits for more tasks.
WorkerWait(w) ==
  /\ lock = {w}
  /\ wpc[w] = "loop"
  /\ ready_to_run_namespaces = <<>>
  /\ ~shutdown
  /\ lock' = FREE
  /\ wpc' = [wpc EXCEPT ![w] = "wait"]
  /\ UNCHANGED <<namespaces, ready_to_run_namespaces, running_tasks, did_run,
                 task_namespace, opc, stale, history,
                 shutdown>>

\* An exit that does not wake the next worker.
WorkerExitSilent(w) ==
  /\ lock = {w}
  /\ wpc[w] = "loop"
  /\ ready_to_run_namespaces = <<>>
  /\ shutdown
  /\ lock' = FREE
  /\ wpc' = [wpc EXCEPT ![w] = "done"]
  /\ UNCHANGED <<namespaces, ready_to_run_namespaces, running_tasks, did_run,
                 task_namespace, opc, stale, history, shutdown>>

\* "Exit when shutdown is set and no more tasks are pending", waking the
\* next worker on the way out.
WorkerExit(w) ==
  /\ lock = {w}
  /\ wpc[w] = "loop"
  /\ ready_to_run_namespaces = <<>>
  /\ shutdown
  /\ lock' = FREE
  /\ wpc' \in SignalReady([wpc EXCEPT ![w] = "done"])
  /\ UNCHANGED <<namespaces, ready_to_run_namespaces, running_tasks, did_run,
                 task_namespace, opc, stale, history, shutdown>>

\* RunTaskWithLockAcquired(thread_index) up to the Signal: the top task of
\* the top namespace goes into slot w.
TakeTask(w) ==
  /\ ready_to_run_namespaces # <<>>
  /\ \E popped \in PopHeap(ready_to_run_namespaces,
                           NamespaceLess(ready_to_run_namespaces,
                                         namespaces)) :
       LET tok == popped[Len(popped)]
           rest == SubSeq(popped, 1, Len(popped) - 1)
           ns == namespaces[tok]
       IN \E tasks \in PopHeap(ns.ready_to_run_tasks,
                               TaskLess(ns.ready_to_run_tasks)) :
            LET task == tasks[Len(tasks)].task
                nss == SetNamespace(
                         namespaces, tok,
                         [ns EXCEPT
                            !.ready_to_run_tasks =
                               SubSeq(tasks, 1, Len(tasks) - 1),
                            !.num_running_tasks = @ + 1])
            IN /\ namespaces' = nss
               /\ ready_to_run_namespaces' \in RequeueNamespace(rest, tok, nss)
               /\ running_tasks' = [running_tasks EXCEPT ![w] = task]
               /\ task_namespace' = [task_namespace EXCEPT ![w] = tok]
               /\ starts' = [starts EXCEPT ![task] = @ + 1]

\* Run's call of RunTaskWithLockAcquired up to the AutoUnlock: the worker
\* takes a task, wakes another worker and its body starts.
Dispatch(w) ==
  /\ lock = {w}
  /\ wpc[w] = "loop"
  /\ TakeTask(w)
  /\ wpc' \in SignalReady([wpc EXCEPT ![w] = "run"])
  /\ lock' = FREE
  /\ last_submit' = <<>>
  /\ resubmitted' = FALSE
  /\ UNCHANGED <<did_run, opc, stale, num_submits, submitted, drained,
                 collected, superseded, finished_by_run,
                 shutdown>>

\* One turn of the loop over the finished task's dependents.  A state of the
\* loop: the graph's nodes, the namespace's ready heap, the namespace heap
\* and ready_to_run_namespaces_has_heap_properties.
FanOutStep(s, dep, tok) ==
  LET k == FindNode(s.nodes, dep)
      nodes == DecrementNode(s.nodes, dep)
  IN IF nodes[k].dependencies # 0 THEN {[s EXCEPT !.nodes = nodes]}
     ELSE {[nodes |-> nodes,
            ready |-> h,
            rtn |-> IF s.ready = <<>> THEN Append(s.rtn, tok) ELSE s.rtn,
            heap |-> FALSE] :
             h \in PushHeap(
                     Append(s.ready,
                            PrioritizedTask(dep, nodes[k].priority)),
                     TaskLess(Append(s.ready,
                                     PrioritizedTask(dep,
                                                     nodes[k].priority))))}

RECURSIVE FanOut(_, _, _, _)
FanOut(S, deps, i, tok) ==
  IF i > Len(deps) THEN S
  ELSE FanOut(UNION {FanOutStep(s, deps[i], tok) : s \in S}, deps, i + 1, tok)

\* RestoreHeap without the make_heap: the namespaces stay as the fan-out
\* left them.
RestoreHeapSkipped(rtn, has_heap_properties, nss) == {rtn}

\* "Rearrange the task namespaces in ready_to_run_namespaces_ in such a way
\* that they yet again form a heap", when the flag says they may not.
RestoreHeap(rtn, has_heap_properties, nss) ==
  IF has_heap_properties THEN {rtn} ELSE NamespaceHeap(rtn, nss)

\* NumRunningAfterRun without the decrement.
NumRunningKept(n) == n

\* "num_running_tasks--" once the body has returned.
NumRunningAfterRun(n) == n - 1

\* RunTaskWithLockAcquired(thread_index) from the end of the AutoUnlock
\* scope to its end, for the task in slot w; pcs is where the client threads
\* are when the finished signal is given.
TaskReturns(w, pcs) ==
  /\ LET task == running_tasks[w]
         tok == task_namespace[w]
         ns == [namespaces[tok] EXCEPT
                  !.num_running_tasks = NumRunningAfterRun(@)]
     IN \E f \in FanOut({[nodes |-> ns.graph.nodes,
                          ready |-> ns.ready_to_run_tasks,
                          rtn |-> ready_to_run_namespaces,
                          heap |-> TRUE]},
                        DependentIterator(ns.graph, task), 1, tok) :
          LET done == [ns EXCEPT !.graph.nodes = f.nodes,
                                 !.ready_to_run_tasks = f.ready,
                                 !.completed_tasks = Append(@, task)]
              nss == SetNamespace(namespaces, tok, done)
          IN /\ namespaces' = nss
             /\ ready_to_run_namespaces' \in RestoreHeap(f.rtn, f.heap, nss)
             /\ opc' \in (IF HasFinishedRunningTasksInNamespace(done)
                          THEN SignalFinished(pcs) ELSE {pcs})
             /\ did_run' = [did_run EXCEPT ![task] = TRUE]
             /\ finished_by_run' =
                  IF HasFinishedRunningTasksInNamespace(done)
                  THEN finished_by_run \cup {tok} ELSE finished_by_run \ {tok}
  /\ running_tasks' = [running_tasks EXCEPT ![w] = NULL]
  /\ superseded' = superseded \ {w}

\* The body has returned and the worker has the lock again, which it keeps
\* for the next turn of Run's loop.
Finish(w) ==
  /\ lock = FREE
  /\ wpc[w] = "run"
  /\ TaskReturns(w, opc)
  /\ wpc' = [wpc EXCEPT ![w] = "loop"]
  /\ lock' = {w}
  /\ last_submit' = <<>>
  /\ resubmitted' = FALSE
  /\ UNCHANGED <<task_namespace, stale, num_submits, submitted, starts,
                 drained, collected,
                 shutdown>>

-----------------------------------------------------------------------------
\* ~TaskGraphRunner up to the joins, which wait for the workers to be done.
\* No client is inside a call on an object that is being destroyed, and none
\* calls afterwards.
Shutdown ==
  /\ lock = FREE
  /\ ~shutdown
  /\ \A o \in Origins : opc[o] = "idle"
  /\ ready_to_run_namespaces = <<>>
  /\ namespaces = <<>>
  /\ shutdown' = TRUE
  /\ wpc' \in SignalReady(wpc)
  /\ UNCHANGED <<lock, namespaces, ready_to_run_namespaces, running_tasks,
                 did_run, task_namespace, opc, stale, history>>

Worker(w) ==
  \/ WorkerAcquire(w)
  \/ WorkerWait(w)
  \/ WorkerExit(w)
  \/ Dispatch(w)
  \/ Finish(w)

\* Two worker threads, clients that submit and collect, and the owner that
\* destroys the runner.
Next ==
  \/ \E tok \in Tokens : \E graph \in GraphsOf[tok] :
       /\ num_submits < MaxSubmits
       /\ ~shutdown
       /\ SetTaskGraph(tok, graph)
  \/ \E tok \in Tokens : ~shutdown /\ CollectCompletedTasks(tok)
  \/ Shutdown
  \/ \E w \in Workers : WorkerAcquire(w)
  \/ \E w \in Workers : WorkerWait(w)
  \/ \E w \in Workers : WorkerExit(w)
  \/ \E w \in Workers : Dispatch(w)
  \/ \E w \in Workers : Finish(w)

Spec == Init /\ [][Next]_vars

\* Both worker threads are scheduled fairly and every task body returns.
WorkerFairness == \A w \in Workers : WF_vars(Worker(w))

\* The same threads, with fewer submissions before the runner is destroyed.
FairNext ==
  \/ \E tok \in Tokens : \E graph \in GraphsOf[tok] :
       /\ num_submits < MaxFairSubmits
       /\ ~shutdown
       /\ SetTaskGraph(tok, graph)
  \/ \E tok \in Tokens : ~shutdown /\ CollectCompletedTasks(tok)
  \/ Shutdown
  \/ \E w \in Workers : WorkerAcquire(w)
  \/ \E w \in Workers : WorkerWait(w)
  \/ \E w \in Workers : WorkerExit(w)
  \/ \E w \in Workers : Dispatch(w)
  \/ \E w \in Workers : Finish(w)

FairSpec == Init /\ [][FairNext]_vars /\ WorkerFairness

\* The same runner while only worker 0's thread is scheduled (worker 1's has
\* not entered Run yet), and clients that also wait.
LiveWorkers == {0}

LiveNext ==
  \/ \E tok \in Tokens : \E graph \in GraphsOf[tok] :
       num_submits < MaxLiveSubmits /\ SetTaskGraph(tok, graph)
  \/ \E tok \in Tokens : CollectCompletedTasks(tok)
  \/ \E o \in Origins : WaitForTasksToFinishRunning(o)
  \/ \E o \in Origins : WaiterWakes(o)
  \/ \E w \in LiveWorkers : WorkerAcquire(w)
  \/ \E w \in LiveWorkers : WorkerWait(w)
  \/ \E w \in LiveWorkers : Dispatch(w)
  \/ \E w \in LiveWorkers : Finish(w)

\* The threads are scheduled fairly and every task body returns; the clients
\* call when they please.
Fairness ==
  /\ \A w \in LiveWorkers : WF_vars(Worker(w))
  /\ \A o \in Origins : WF_vars(WaiterWakes(o))

LiveSpec == Init /\ [][LiveNext]_vars /\ Fairness

\* RunTaskForTesting called by client thread o, up to the AutoUnlock of
\* RunTaskWithLockAcquired(0): false is returned if nothing is ready, else
\* the top task goes into slot 0 and its body starts on the client's thread.
\* Slot 0 is free at the call ("DCHECK(!running_tasks_[thread_index])").
RunTaskForTesting(o) ==
  /\ lock = FREE
  /\ opc[o] = "idle"
  /\ running_tasks[0] = NULL
  /\ IF ready_to_run_namespaces = <<>>
     THEN UNCHANGED vars
     ELSE /\ TakeTask(0)
          /\ wpc' \in SignalReady(wpc)
          /\ opc' = [opc EXCEPT ![o] = "test"]
          /\ lock' = FREE
          /\ last_submit' = <<>>
          /\ resubmitted' = FALSE
          /\ UNCHANGED <<did_run, stale, num_submits, submitted, drained,
                         collected, superseded, finished_by_run, shutdown>>

\* The rest of RunTaskForTesting: the body has returned, the client takes
\* the lock, RunTaskWithLockAcquired(0) runs to its end and true is
\* returned, which releases the lock.
TestingReturns(o) ==
  /\ lock = FREE
  /\ opc[o] = "test"
  /\ TaskReturns(0, [opc EXCEPT ![o] = "idle"])
  /\ lock' = FREE
  /\ last_submit' = <<>>
  /\ resubmitted' = FALSE
  /\ UNCHANGED <<wpc, task_namespace, stale, num_submits, submitted, starts,
                 drained, collected, shutdown>>

\* Slot 0 is written by one thread at a time: worker 0 takes no task while
\* a client runs one in slot 0.
Testing == \E o \in Origins : opc[o] = "test"

\* Both workers, clients that submit and collect, and clients that run
\* tasks themselves through RunTaskForTesting.
TestNext ==
  \/ \E tok \in Tokens : \E graph \in GraphsOf[tok] :
       num_submits < MaxFairSubmits /\ SetTaskGraph(tok, graph)
  \/ \E tok \in Tokens : CollectCompletedTasks(tok)
  \/ \E o \in Origins : RunTaskForTesting(o)
  \/ \E o \in Origins : TestingReturns(o)
  \/ \E w \in Workers : WorkerAcquire(w)
  \/ \E w \in Workers : WorkerWait(w)
  \/ \E w \in Workers : (w = 0 => ~Testing) /\ Dispatch(w)
  \/ \E w \in Workers : Finish(w)

\* The workers are scheduled fairly and every task body returns, on a
\* worker or on a client's thread; the clients call when they please.
TestFairness ==
  /\ \A w \in Workers :
       WF_vars(\/ WorkerAcquire(w)
               \/ WorkerWait(w)
               \/ (w = 0 => ~Testing) /\ Dispatch(w)
               \/ Finish(w))
  /\ \A o \in Origins : WF_vars(TestingReturns(o))

TestSpec == Init /\ [][TestNext]_vars /\ TestFairness

-----------------------------------------------------------------------------
(* Properties *)

\* Worker w's step takes a task into its slot: the step is a dispatch.
Dispatches(w) == running_tasks[w] = NULL /\ running_tasks'[w] # NULL

\* The sources of the edges into task t in graph g.
Dependencies(g, t) ==
  {g.edges[i].task : i \in {j \in 1..Len(g.edges) : g.edges[j].dependent = t}}

\* Times task t occurs in the completed_tasks of its namespace.
CompletedIn(nss, t) ==
  IF OwnerOf(t) \in DOMAIN nss
  THEN Count(nss[OwnerOf(t)].completed_tasks, t)
  ELSE 0

InCompleted(t) == CompletedIn(namespaces, t)

\* Times task t occurs on the ready heap of its namespace.
ReadyIn(nss, t) ==
  IF OwnerOf(t) \in DOMAIN nss
  THEN Cardinality({i \in 1..Len(nss[OwnerOf(t)].ready_to_run_tasks) :
                      nss[OwnerOf(t)].ready_to_run_tasks[i].task = t})
  ELSE 0

OnReadyHeap(t) == ReadyIn(namespaces, t)

\* C1: a task is never dispatched while a task it depends on in the graph
\* installed in its namespace has not finished running.
C1_DependencyOrdering ==
  [][\A w \in Workers :
       Dispatches(w) =>
         \A t \in Dependencies(namespaces[task_namespace'[w]].graph,
                               running_tasks'[w]) : did_run[t]]_vars

\* C2: a task is never twice in completed_tasks, and is at most once in all
\* the drains of its namespace together.
C2_AtMostOnceReply == \A t \in Tasks : drained[t] + InCompleted(t) <= 1

\* C4: no task's body is started twice.
C4_NoTaskRunsTwice == \A t \in Tasks : starts[t] <= 1

\* Task t has been appended to the completed_tasks of its namespace: it is
\* there, or a CollectCompletedTasks has taken it out.
Replied(t) == drained[t] + InCompleted(t) >= 1

\* C3: every task that was a node of a submitted graph is eventually
\* appended to completed_tasks.
C3_GuaranteedReply == \A t \in Tasks : (t \in submitted) ~> Replied(t)

\* The step is a call of SetTaskGraph.
Submits == num_submits' = num_submits + 1

\* The tasks of the graph installed for token tok; none without a namespace.
Installed(nss, tok) ==
  IF tok \in DOMAIN nss THEN NodeTasks(nss[tok].graph) ELSE {}

\* C5: a SetTaskGraph that omits a task of the previous graph which is
\* neither running nor finished leaves it in completed_tasks, not run and
\* off the ready heap; and only tasks of the installed graph are dispatched,
\* the installed tasks changing only in SetTaskGraph.
C5_CancelQueued ==
  [][/\ Submits =>
          \A t \in Tasks :
            (/\ t \in Installed(namespaces, OwnerOf(t))
             /\ t \notin Installed(namespaces', OwnerOf(t))
             /\ ~did_run[t]
             /\ ~IsRunning(t))
            => (CompletedIn(namespaces', t) >= 1 /\ ~did_run'[t] /\ ReadyIn(namespaces', t) = 0)
     /\ \A w \in Workers :
          Dispatches(w) =>
            running_tasks'[w] \in Installed(namespaces, task_namespace'[w])
     /\ ~Submits =>
          \A tok \in Tokens :
            Installed(namespaces', tok) \subseteq Installed(namespaces, tok)
    ]_vars

\* A task was cancelled while queued, and a task of the graph that replaced
\* its graph has been dispatched since.
C5_Witness ==
  \E t \in Tasks, w \in Workers :
    /\ InCompleted(t) = 1
    /\ ~did_run[t]
    /\ starts[t] = 0
    /\ t \notin Installed(namespaces, OwnerOf(t))
    /\ running_tasks[w] # NULL
    /\ task_namespace[w] = OwnerOf(t)

\* C6: while a task's body runs, a SetTaskGraph neither puts it on the
\* ready heap nor appends it to completed_tasks nor touches its run; and a
\* task whose namespace got a new graph during its run is not started again
\* while it runs and is, when its run returns, finished and once in
\* completed_tasks, its only reply.
C6_MidFlightSupersede ==
  [][\A w \in Workers :
       wpc[w] = "run" =>
         LET a == running_tasks[w]
         IN /\ Submits =>
                 /\ ReadyIn(namespaces', a) <= OnReadyHeap(a)
                 /\ CompletedIn(namespaces', a) = InCompleted(a)
                 /\ running_tasks'[w] = a
                 /\ wpc'[w] = "run"
                 /\ did_run'[a] = did_run[a]
            /\ w \in superseded =>
                 /\ \A v \in Workers \ {w} :
                      Dispatches(v) => running_tasks'[v] # a
                 /\ wpc'[w] # "run" =>
                      /\ did_run'[a]
                      /\ CompletedIn(namespaces', a) = 1
                      /\ drained'[a] = 0
    ]_vars

\* C7: the task a dispatch takes off a ready heap has a priority value no
\* larger than that of any task on any namespace's ready heap.
C7_PriorityDispatch ==
  [][\A w \in Workers :
       Dispatches(w) =>
         LET old == namespaces[task_namespace'[w]].ready_to_run_tasks
             new == namespaces'[task_namespace'[w]].ready_to_run_tasks
         IN \E i \in 1..Len(old) :
              /\ old[i].task = running_tasks'[w]
              /\ \A e \in Range(old) :
                   Count(old, e) = Count(new, e) + (IF e = old[i] THEN 1 ELSE 0)
              /\ \A tok \in DOMAIN namespaces :
                   \A e \in Range(namespaces[tok].ready_to_run_tasks) :
                     old[i].priority <= e.priority
    ]_vars

\* The worker's first dispatch took X, of priority 0, from the second
\* namespace while the first namespace, submitted to first, has a ready task of priority 1.
C7_Witness ==
  \E w \in Workers :
    /\ wpc[w] = "run"
    /\ running_tasks[w] = "X"
    /\ \A t \in Tasks : starts[t] = (IF t = "X" THEN 1 ELSE 0)
    /\ 1 \in DOMAIN namespaces
    /\ namespaces[1].ready_to_run_tasks # <<>>
    /\ \A e \in Range(namespaces[1].ready_to_run_tasks) : e.priority = 1
    /\ \E i \in 1..Len(namespaces[2].graph.nodes) :
         namespaces[2].graph.nodes[i] = Node("X", 0, 0)

\* The namespace of token tok is there and all-finished.
AllFinished(nss, tok) ==
  tok \in DOMAIN nss /\ HasFinishedRunningTasksInNamespace(nss[tok])

\* C8: a thread blocked in WaitForTasksToFinishRunning on a namespace that a
\* returning task left all-finished, the signal of which went to a waiter of
\* another namespace, eventually returns.
C8_WaiterRelay ==
  \A o \in Origins :
    (opc[o] = "wait" /\ o \in finished_by_run) ~> (opc[o] = "idle")

\* C9: every step that takes a namespace a thread is blocked on from not
\* all-finished to all-finished signals the condition variable: it wakes a
\* blocked thread.
C9_SignalOnAllFinished ==
  [][\A tok \in Tokens :
       (/\ opc[tok] = "wait"
        /\ tok \in DOMAIN namespaces
        /\ ~AllFinished(namespaces, tok)
        /\ AllFinished(namespaces', tok))
       => \E o \in Origins : opc[o] = "wait" /\ opc'[o] = "woken"
    ]_vars

\* The tasks of token tok's graph have each run once and the namespace is
\* all-finished, or has been erased, which takes it to be all-finished.
RanToCompletion(tok) ==
  tok \in DOMAIN namespaces =>
    /\ HasFinishedRunningTasksInNamespace(namespaces[tok])
    /\ \A t \in NodeTasks(namespaces[tok].graph) :
         did_run[t] /\ starts[t] = 1

\* C10: when there is one SetTaskGraph only, of an acyclic graph to a fresh
\* token, every task of the graph runs, and once only, the namespace
\* becomes all-finished, and a thread that waits for it returns.
C10_RunToCompletion ==
  [](num_submits <= 1) =>
    /\ \A t \in Tasks : [](starts[t] <= 1)
    /\ \A t \in Tasks : (t \in submitted) ~> did_run[t]
    /\ \A tok \in Tokens : (tok \in DOMAIN namespaces) ~> RanToCompletion(tok)
    /\ \A o \in Origins : (opc[o] = "wait") ~> (opc[o] = "idle")

\* The step is origin thread o in WaitForTasksToFinishRunning, at its call or
\* back from the condition variable.
InWait(o) == WaitForTasksToFinishRunning(o) \/ WaiterWakes(o)

\* A slot holds a task that was dispatched from the namespace of token tok.
RunningFrom(tok) ==
  \E w \in Workers : running_tasks[w] # NULL /\ task_namespace[w] = tok

\* C11: when WaitForTasksToFinishRunning returns, the token has no
\* namespace, or its namespace is all-finished, with an empty ready heap
\* and none of its tasks running; with no namespace at the call nothing is
\* signalled and the thread does not wait.
C11_WaitPostcondition ==
  [][\A o \in Origins :
       InWait(o) =>
         /\ (opc[o] # "idle" /\ opc'[o] = "idle") =>
              \/ o \notin DOMAIN namespaces
              \/ /\ HasFinishedRunningTasksInNamespace(namespaces[o])
                 /\ namespaces[o].ready_to_run_tasks = <<>>
                 /\ ~RunningFrom(o)
         /\ (opc[o] = "idle" /\ o \notin DOMAIN namespaces) => opc' = opc
    ]_vars

\* The scheduler's state apart from the namespaces map.
SchedulerRest ==
  <<lock, ready_to_run_namespaces, running_tasks, did_run, wpc,
    task_namespace, opc>>

\* C12: CollectCompletedTasks on a token with a namespace hands the caller
\* the namespace's completed_tasks, whole and in order, and empties it,
\* changing nothing else of the namespace; the namespace is erased exactly
\* when it is all-finished after the move; on a token with no namespace the
\* caller's vector stays empty and the scheduler's state is unchanged.
C12_CollectMovesQueue ==
  [][\A tok \in Tokens :
       CollectCompletedTasks(tok) =>
         IF tok \in DOMAIN namespaces
         THEN /\ collected' = namespaces[tok].completed_tasks
              /\ tok \in DOMAIN namespaces' =>
                   namespaces'[tok] =
                     [namespaces[tok] EXCEPT !.completed_tasks = <<>>]
              /\ tok \notin DOMAIN namespaces' <=>
                   HasFinishedRunningTasksInNamespace(
                     [namespaces[tok] EXCEPT !.completed_tasks = <<>>])
              /\ \A k \in DOMAIN namespaces \ {tok} :
                   k \in DOMAIN namespaces' /\ namespaces'[k] = namespaces[k]
              /\ UNCHANGED SchedulerRest
         ELSE /\ collected' = <<>>
              /\ UNCHANGED <<namespaces, SchedulerRest>>
    ]_vars

\* A collect took two tasks at once and erased the namespace.
C12_Witness ==
  /\ Len(collected) = 2
  /\ \A i \in 1..Len(collected) : OwnerOf(collected[i]) = 1
  /\ 1 \notin DOMAIN namespaces
  /\ \A t \in Tasks : drained[t] = Count(collected, t)

\* C13: once the destructor has set shutdown_ and signalled, every worker
\* thread leaves Run, so that the joins return.
C13_ShutdownTerminates ==
  shutdown ~> (\A w \in Workers : wpc[w] = "done")

\* The runner was destroyed after it had run a task, and both workers have
\* left Run.
C13_Witness ==
  /\ shutdown
  /\ \A w \in Workers : wpc[w] = "done"
  /\ \E t \in Tasks : starts[t] = 1 /\ did_run[t]

\* The tasks that have finished and are in the uncollected completed_tasks
\* of token tok's namespace.
FinishedUncollected(tok) ==
  {a \in NamespaceTasks(tok) : did_run[a] /\ InCompleted(a) >= 1}

\* The node of task t in a node vector.
NodeOf(nodes, t) == nodes[FindNode(nodes, t)]

\* s is the beginning of t.
IsPrefix(s, t) == Len(s) <= Len(t) /\ SubSeq(t, 1, Len(s)) = s

\* C14: a SetTaskGraph made while finished tasks are in the uncollected
\* completed_tasks installs each node B with its count lowered by one for
\* every edge from such a task A, does not put A on the ready heap, and
\* puts on it a pending B whose only dependency is such an A; completed_tasks
\* keeps what it had in front, and a run that returns appends its task, so
\* that the drain after B ran is A, then B.
C14_CompletedDiscount ==
  [][/\ \A tok \in Tokens : \A graph \in GraphsOf[tok] :
          (/\ Submits
           /\ tok \in DOMAIN namespaces
           /\ SetTaskGraph(tok, graph)) =>
            /\ IsPrefix(namespaces[tok].completed_tasks,
                        namespaces'[tok].completed_tasks)
            /\ \A a \in FinishedUncollected(tok) :
                 ReadyIn(namespaces', a) = 0
            /\ \A i \in 1..Len(graph.nodes) :
                 LET b == graph.nodes[i]
                     from == Dependencies(graph, b.task)
                            \cap FinishedUncollected(tok)
                     now == NodeOf(namespaces'[tok].graph.nodes, b.task)
                 IN /\ now.dependencies <= b.dependencies - Cardinality(from)
                    /\ (/\ from # {}
                        /\ b.dependencies = 1
                        /\ ~did_run[b.task]
                        /\ ~IsRunning(b.task))
                       => ReadyIn(namespaces', b.task) = 1
     /\ \A w \in Workers :
          (wpc[w] = "run" /\ wpc'[w] # "run") =>
            namespaces'[task_namespace[w]].completed_tasks =
              Append(namespaces[task_namespace[w]].completed_tasks,
                     running_tasks[w])
    ]_vars

\* The step leaves the namespaces of all tokens but tok as they are, none
\* created, none erased.
OthersUnchanged(tok) ==
  \A k \in Tokens \ {tok} :
    /\ k \in DOMAIN namespaces <=> k \in DOMAIN namespaces'
    /\ k \in DOMAIN namespaces => namespaces'[k] = namespaces[k]

\* C15: SetTaskGraph, CollectCompletedTasks and WaitForTasksToFinishRunning
\* on a token, and the return of a task of its namespace, leave every
\* other namespace as it is; completed_tasks only ever holds tasks of its
\* own namespace.
C15_NamespaceIsolation ==
  [][/\ \A tok \in Tokens :
          /\ (Submits /\ \E graph \in GraphsOf[tok] : SetTaskGraph(tok, graph))
               => OthersUnchanged(tok)
          /\ CollectCompletedTasks(tok) => OthersUnchanged(tok)
          /\ InWait(tok) => UNCHANGED namespaces
          /\ \A w \in Workers :
               (wpc[w] = "run" /\ wpc'[w] # "run" /\ task_namespace[w] = tok)
               => OthersUnchanged(tok)
     /\ \A tok \in DOMAIN namespaces' :
          \A t \in Range(namespaces'[tok].completed_tasks) : OwnerOf(t) = tok
    ]_vars

\* In the first namespace A has finished and B was cancelled while X is
\* queued in the second and a thread waits for it.
C15_Witness ==
  /\ DOMAIN namespaces = Tokens
  /\ namespaces[2].ready_to_run_tasks # <<>>
  /\ Len(namespaces[1].completed_tasks) = 2
  /\ InCompleted("A") = 1 /\ InCompleted("B") = 1
  /\ did_run["A"] /\ ~did_run["B"]
  /\ opc[2] = "wait"

\* C16: a SetTaskGraph that repeats the call before it, same token and same
\* graph, nothing dispatched, returned or collected in between, leaves the
\* namespace as the first call left it: same installed graph, same ready
\* tasks, same completed_tasks, same num_running_tasks.
C16_ResubmissionIdempotent ==
  [][\A tok \in Tokens : \A graph \in GraphsOf[tok] :
       (/\ Submits
        /\ LastSubmitWas(tok, graph)
        /\ SetTaskGraph(tok, graph)) =>
         /\ namespaces'[tok].graph = namespaces[tok].graph
         /\ Range(namespaces'[tok].ready_to_run_tasks) =
              Range(namespaces[tok].ready_to_run_tasks)
         /\ Len(namespaces'[tok].ready_to_run_tasks) =
              Len(namespaces[tok].ready_to_run_tasks)
         /\ namespaces'[tok].completed_tasks = namespaces[tok].completed_tasks
         /\ namespaces'[tok].num_running_tasks =
              namespaces[tok].num_running_tasks
    ]_vars

\* A graph with an edge was submitted twice in a row, after a task of the
\* namespace had run and another had been cancelled.
C16_Witness ==
  /\ resubmitted
  /\ last_submit[1] = 1
  /\ last_submit[2].edges # <<>>
  /\ namespaces[1].completed_tasks # <<>>
  /\ namespaces[1].ready_to_run_tasks # <<>>

\* Two vectors hold the same elements the same number of times.
SameContents(s, t) ==
  /\ Len(s) = Len(t)
  /\ \A x \in Range(s) \cup Range(t) : Count(s, x) = Count(t, x)

\* C17: SetTaskGraph with an empty graph on a token that has no namespace
\* leaves ready_to_run_namespaces_ with the namespaces it had, and the
\* CollectCompletedTasks that follows it hands over nothing, erases the
\* namespace and leaves ready_to_run_namespaces_ alone.
C17_EmptyGraphRoundTrip ==
  [][\A tok \in Tokens :
       /\ (/\ Submits
           /\ tok \notin DOMAIN namespaces
           /\ SetTaskGraph(tok, EmptyGraph))
          => SameContents(ready_to_run_namespaces', ready_to_run_namespaces)
       /\ (/\ last_submit = <<tok, EmptyGraph, TRUE>>
           /\ CollectCompletedTasks(tok))
          => /\ collected' = <<>>
             /\ tok \notin DOMAIN namespaces'
             /\ ready_to_run_namespaces' = ready_to_run_namespaces
    ]_vars

\* An empty graph has just been submitted to the second token, which had no
\* namespace, while the first namespace has ready tasks; a collect can follow.
C17_Witness ==
  /\ last_submit = <<2, EmptyGraph, TRUE>>
  /\ ready_to_run_namespaces = <<1>>
  /\ \E t \in Tasks : did_run[t]

\* C18: with the lock free, every task on a ready heap is a node of the
\* graph installed in that namespace with no dependency left, has not
\* finished, is in no running_tasks_ slot and is on the heap once.
C18_ReadyTasksRunnable ==
  lock = FREE =>
    \A tok \in DOMAIN namespaces :
      \A e \in Range(namespaces[tok].ready_to_run_tasks) :
        /\ e.task \in NodeTasks(namespaces[tok].graph)
        /\ NodeOf(namespaces[tok].graph.nodes, e.task).dependencies = 0
        /\ ~did_run[e.task]
        /\ ~IsRunning(e.task)
        /\ Cardinality({i \in 1..Len(namespaces[tok].ready_to_run_tasks) :
                          namespaces[tok].ready_to_run_tasks[i].task = e.task})
             = 1

\* The slots that hold a task dispatched from the namespace of token tok.
SlotsOf(tok) ==
  {w \in Workers : running_tasks[w] # NULL /\ task_namespace[w] = tok}

RECURSIVE SumRunning(_)
SumRunning(toks) ==
  IF toks = {} THEN 0
  ELSE LET tok == CHOOSE k \in toks : TRUE
       IN namespaces[tok].num_running_tasks + SumRunning(toks \ {tok})

\* C19: every filled running_tasks_ slot holds a task dispatched from a
\* namespace that exists, each namespace's num_running_tasks is the number
\* of slots filled from it, and the counts add up to the filled slots.
C19_RunningAccounting ==
  /\ \A w \in Workers :
       running_tasks[w] # NULL => task_namespace[w] \in DOMAIN namespaces
  /\ \A tok \in DOMAIN namespaces :
       namespaces[tok].num_running_tasks = Cardinality(SlotsOf(tok))
  /\ SumRunning(DOMAIN namespaces) =
       Cardinality({w \in Workers : running_tasks[w] # NULL})

C19_Witness ==
  /\ lock = FREE
  /\ running_tasks[0] # NULL
  /\ running_tasks[1] # NULL
  /\ task_namespace[0] = task_namespace[1]
  /\ namespaces[task_namespace[0]].num_running_tasks = 2
  /\ \E t \in Tasks : did_run[t]

\* C20: with the lock free, ready_to_run_namespaces_ holds the namespaces
\* of the map that have a ready task, each once, and no other.
C20_ReadyNamespacesConsistent ==
  lock = FREE =>
    /\ Range(ready_to_run_namespaces) =
         {k \in DOMAIN namespaces : namespaces[k].ready_to_run_tasks # <<>>}
    /\ \A k \in Range(ready_to_run_namespaces) :
         Count(ready_to_run_namespaces, k) = 1

C20_Witness ==
  /\ lock = FREE
  /\ \E w \in Workers :
       /\ running_tasks[w] # NULL
       /\ task_namespace[w] \in Range(ready_to_run_namespaces)
  /\ \E k \in DOMAIN namespaces :
       /\ k \notin Range(ready_to_run_namespaces)
       /\ namespaces[k].completed_tasks # <<>>

\* A worker is blocked on has_ready_to_run_tasks_cv_ while a namespace has
\* a ready task.
StrandedWork ==
  /\ ready_to_run_namespaces # <<>>
  /\ \E w \in Workers : wpc[w] = "wait"

\* The tasks taken so far, by a worker or through RunTaskForTesting.
TotalStarts == starts["A"] + starts["B"] + starts["X"]

\* C21: whenever a namespace has a ready task and a worker is blocked on
\* has_ready_to_run_tasks_cv_, a task is eventually taken, unless the
\* clients withdraw all the ready work first.
C21_NoStrandedWork ==
  \A n \in 0..(MaxFairSubmits * Cardinality(Tasks)) :
    (StrandedWork /\ TotalStarts = n)
      ~> (TotalStarts > n \/ ready_to_run_namespaces = <<>>)

\* C22: no dependency count is decremented at 0.  A decrement at 0 wraps,
\* so that it shows as a count no in-degree can reach: every count of an
\* installed node stays below the number of nodes of its graph.
C22_NoUnderflow ==
  \A tok \in DOMAIN namespaces :
    \A i \in 1..Len(namespaces[tok].graph.nodes) :
      namespaces[tok].graph.nodes[i].dependencies
        < Len(namespaces[tok].graph.nodes)

\* C23: while a worker runs a task body, every step leaves the namespace
\* the task was taken from in the map, and as long as the body runs the
\* registered namespace is the object that counts it as running; the step
\* after the body adds the task to that namespace's completed_tasks.
C23_RunningNamespaceKept ==
  [][\A w \in Workers :
       running_tasks[w] # NULL =>
         /\ task_namespace[w] \in DOMAIN namespaces'
         /\ running_tasks'[w] # NULL =>
              namespaces'[task_namespace[w]].num_running_tasks >= 1
         /\ running_tasks'[w] = NULL =>
              CompletedIn(namespaces', running_tasks[w]) >= 1]_vars

\* A task body runs while SetTaskGraph has just been called on the token
\* of its namespace, after a collect on that token.
C23_Witness ==
  \E w \in Workers :
    /\ running_tasks[w] # NULL
    /\ last_submit # <<>>
    /\ last_submit[1] = task_namespace[w]
    /\ namespaces[task_namespace[w]].completed_tasks = <<>>
    /\ \E t \in NamespaceTasks(task_namespace[w]) : drained[t] >= 1

\* C24: as long as a thread is inside WaitForTasksToFinishRunning, blocked
\* or woken and not yet returned, the namespace it looked up has not been
\* erased from the map.
C24_WaitedNamespaceRegistered ==
  \A o \in Origins : opc[o] \in {"wait", "woken"} => ~stale[o]

====
